---------------------------- MODULE Spec2Model ----------------------------
(***************************************************************************)
(* A model of the helper functions of the ITS_LIVE tutorial notebooks:     *)
(*   read_in_s3            (accessing_s3_data.ipynb, lines 191-199)        *)
(*   find_granules_by_zone (accessing_s3_data.ipynb, lines 311-327)        *)
(*   find_granule_by_point (accessing_s3_data.ipynb, lines 468-495)        *)
(*   get_bbox_single       (accessing_s3_data.ipynb, lines 130-173)        *)
(*   get_bbox_group        (accessing_s3_data.ipynb, lines 377-427)        *)
(* and of the cells that project the rectangle back (part_001, 301-313).   *)
(* Further: the glacier key RGI_int (glacier_analysis_grouped.ipynb,       *)
(* 237-238), find_dim_duplicates (part_001, 793-802), the coverage cell    *)
(* (part_001, 643-648), the cells that open the first result of the point  *)
(* lookup (part_001, 107-117) and the workflow on-push.yml.                *)
(* Locators are TLA+ strings, handled character by character the way       *)
(* Python's str.replace handles them.  Coordinates are integers on a small *)
(* grid.                                                                   *)
(***************************************************************************)
EXTENDS Integers, Sequences, FiniteSets, TLC

VARIABLES
    \* read_in_s3 and the chained translation of find_granules_by_zone
    http_url,      \* the argument (a published locator)
    bucket,        \* the bucket the argument was built from ("" if not published form)
    key,           \* the key the argument was built from
    published,     \* TRUE iff http_url = "http://" + bucket + ".s3.amazonaws.com/" + key
    s3_url,        \* the local s3_url of read_in_s3
    zone_s3_url,   \* the local s3_url of find_granules_by_zone for the same argument
    datacube,      \* what read_in_s3 returned (None before, or on failure)
    s3_again,      \* the local s3_url of read_in_s3 called with zone_s3_url
    tpc,           \* position in read_in_s3
    remote,        \* the object store: the set of s3 locators that exist
    \* the catalog both lookups read
    itslive_catalog,      \* json.loads(...)['features']: a sequence of features
    \* find_granule_by_point
    input_point,          \* the argument [lon, lat]
    granule,              \* the loop index (0-based, as range() gives it)
    target_granule_urls,  \* the list being built
    point_result,         \* the returned list (NoList before the return)
    point_error,          \* the exception that ended the call (None if none)
    point_prev,           \* <<the list the call before this one returned>>, or <<>>
    ppc,                  \* position in find_granule_by_point
    \* find_granules_by_zone
    epsg_code,            \* the argument
    zgranule,             \* the loop index (0-based)
    zs3_url,              \* the local s3_url of the current pass
    url_ls,               \* the list being built
    probes,               \* the calls of fs.lexists made so far, with their answers
    zone_result,          \* the returned list (NoList before the return)
    zone_error,           \* the exception that ended the call (None if none)
    zone_prev,            \* <<the list the call before this one returned>>, or <<>>
    store_changed,        \* TRUE once the store changed after the first call began
    zpc,                  \* position in find_granules_by_zone
    \* get_bbox_single
    input_xr,             \* the argument: the axes and mapping.spatial_epsg of a dataset
    xr_at_call,           \* the argument as it was when the call began
    extrema,              \* xmin, xmax, ymin, ymax
    pts_ls,               \* the vertices of the rectangle
    crs,                  \* the EPSG code read from the dataset
    polygon,              \* the one-row GeoDataFrame, reprojected
    figure,               \* the matplotlib figure drawn (None if none)
    bbox_result,          \* what the call evaluates to
    bbox_error,           \* the exception that ended the call (None if none)
    bpc,                  \* position in get_bbox_single
    \* the cells that use the rectangle (bbox_dc = get_bbox_single(dc) ...)
    bbox_dc,              \* the caller's variable
    caller_error,         \* the exception that ended the cell (None if none)
    cpc,                  \* position in the caller's cells
    \* get_bbox_group
    input_ls,             \* the argument: a list of datasets
    bounds,               \* the argument bounds
    xr_obj,               \* the loop index (0-based)
    poly_ls,              \* the rectangles built so far
    group_figure,         \* the matplotlib figure drawn (None if none)
    group_error,          \* the exception that ended the call (None if none)
    gpc                   \* position in get_bbox_group

transVars == <<http_url, bucket, key, published, s3_url, zone_s3_url, datacube,
               s3_again, tpc>>

pointVars == <<input_point, granule, target_granule_urls, point_result, point_error,
               point_prev, ppc>>

zoneVars == <<epsg_code, zgranule, zs3_url, url_ls, probes, zone_result, zone_error,
              zone_prev, store_changed, zpc>>

bboxVars == <<input_xr, xr_at_call, extrema, pts_ls, crs, polygon, figure, bbox_result,
              bbox_error, bpc>>

callerVars == <<bbox_dc, caller_error, cpc>>

groupVars == <<input_ls, bounds, xr_obj, poly_ls, group_figure, group_error, gpc>>

\* the five helpers and the cells that call them
helperVars == <<transVars, remote, itslive_catalog, pointVars, zoneVars, bboxVars,
                callerVars, groupVars>>

VARIABLES
    \* the glacier key (glacier_analysis_grouped.ipynb, lines 237-238)
    RGIId,                \* the column RGIId of the outline table
    RGI_int,              \* the column RGI_int (<<>> before line 237)
    rgi_error,            \* the exception that ended the cell (None if none)
    rpc                   \* position in the cell

glacierVars == <<RGIId, RGI_int, rgi_error, rpc>>

VARIABLES
    \* find_dim_duplicates (unnamed/part_001, lines 793-802)
    mid_date,              \* the coordinate mid_date of the argument input_xr
    element,               \* the loop index (0-based)
    printed,               \* what print was called with, and at which index
    isel_max,              \* the highest index handed to isel so far (-1: none)
    dup_error,             \* the exception that ended the call (None if none)
    dpc                    \* position in find_dim_duplicates

dupVars == <<mid_date, element, printed, isel_max, dup_error, dpc>>

VARIABLES
    \* the coverage cell (unnamed/part_001, lines 643-648)
    raster_v,              \* sample_glacier_raster.v: per time step, per pixel, TRUE iff not null
    valid_pixels,          \* per time step, the count of pixels that are not null
    valid_pix_max,         \* the number of pixels that are not null at some time step
    cov,                   \* per time step, valid_pixels/valid_pix_max as a fraction
    covpc                  \* position in the cell

covVars == <<raster_v, valid_pixels, valid_pix_max, cov, covpc>>

VARIABLES
    \* the cells that open the first result of the point lookup
    \* (unnamed/part_001, lines 107-117)
    nb_url,                \* the notebook's name url (NoList before it is bound)
    flow_error,            \* the exception that ended the second cell (None if none)
    fpc                    \* position in the two cells

flowVars == <<nb_url, flow_error, fpc>>

VARIABLES
    \* the runs of the workflow (.github/workflows/on-push.yml)
    runs,                  \* per run: its event, ref, status, step and the outcomes of its steps
    gh_pages               \* the runs that pushed to the branch gh-pages, in order

workflowVars == <<runs, gh_pages>>

\* the cells of the analysis notebooks and the build workflow
otherVars == <<glacierVars, dupVars, covVars, flowVars, workflowVars>>

vars == <<helperVars, otherVars>>

\* what each function leaves alone
notTranslate == <<itslive_catalog, pointVars, zoneVars, bboxVars, callerVars, groupVars, otherVars>>
notPoint == <<transVars, remote, zoneVars, bboxVars, callerVars, groupVars, otherVars>>
notZone == <<transVars, pointVars, bboxVars, callerVars, groupVars, otherVars>>
notBbox == <<transVars, remote, itslive_catalog, pointVars, zoneVars, callerVars, groupVars, otherVars>>
notCaller == <<transVars, remote, itslive_catalog, pointVars, zoneVars, bboxVars, groupVars, otherVars>>
notGlacier == <<helperVars, dupVars, covVars, flowVars, workflowVars>>
notDup == <<helperVars, glacierVars, covVars, flowVars, workflowVars>>
notCov == <<helperVars, glacierVars, dupVars, flowVars, workflowVars>>
notFlow == <<helperVars, glacierVars, dupVars, covVars, workflowVars>>
notWorkflow == <<helperVars, glacierVars, dupVars, covVars, flowVars>>
notGroup == <<transVars, remote, itslive_catalog, pointVars, zoneVars, bboxVars, callerVars, otherVars>>

None == "<None>"

\* the result of a lookup that has not returned: no list of locators
NoList == <<None>>


(***************************************************************************)
(* Strings                                                                 *)
(***************************************************************************)

\* s[from..], Python's s[from-1:]
Drop(s, n) == SubSeq(s, n + 1, Len(s))

\* Python's `sub in s`
Contains(s, sub) ==
    \E i \in 1..(Len(s) - Len(sub) + 1) : SubSeq(s, i, i + Len(sub) - 1) = sub

\* the positions at which sub occurs in s, and the leftmost of them
Occurrences(s, sub) ==
    {i \in 1..(Len(s) - Len(sub) + 1) : SubSeq(s, i, i + Len(sub) - 1) = sub}

Leftmost(hits) == CHOOSE h \in hits : \A g \in hits : h <= g

\* A replace that resumes one character too late after a match.
RECURSIVE ReplaceSkipsOne(_, _, _)
ReplaceSkipsOne(s, old, new) ==
    IF Occurrences(s, old) = {} THEN s
    ELSE LET i == Leftmost(Occurrences(s, old))
         IN  SubSeq(s, 1, i - 1) \o new \o ReplaceSkipsOne(Drop(s, i + Len(old)), old, new)

\* Python's s.replace(old, new) for a non-empty old: every non-overlapping
\* occurrence, scanning from the left.
\* (t is the value of s, worked out once per call)
RECURSIVE Replace(_, _, _)
Replace(s, old, new) ==
    CHOOSE r \in
        { IF Occurrences(t, old) = {} THEN t
          ELSE LET i == Leftmost(Occurrences(t, old))
               IN  SubSeq(t, 1, i - 1) \o new
                       \o Replace(Drop(t, i + Len(old) - 1), old, new)
          : t \in {s} } : TRUE

Gateway == ".s3.amazonaws.com"

\* a first statement that writes the scheme in capitals
ReadInS3SchemeCapitals(u) == Replace(u, "http", "S3")

\* read_in_s3, first statement
ReadInS3Scheme(u) == Replace(u, "http", "s3")

\* a second statement that deletes the leftmost gateway suffix only
\* (s.replace(old, new, 1))
ReadInS3GatewayOnce(u) ==
    IF Occurrences(u, Gateway) = {} THEN u
    ELSE LET i == Leftmost(Occurrences(u, Gateway))
         IN  SubSeq(u, 1, i - 1) \o Drop(u, i + Len(Gateway) - 1)

\* read_in_s3, second statement
ReadInS3Gateway(u) == Replace(u, Gateway, "")

\* find_granules_by_zone, the chained one-line form
ZoneTranslate(u) == Replace(Replace(u, "http", "s3"), Gateway, "")

(***************************************************************************)
(* Inputs of the translation                                               *)
(***************************************************************************)

MaxPieces == 2

Pieces == {"k", "http", "htt", Gateway, ".s3"}

RECURSIVE Words(_)
Words(n) ==
    IF n = 0 THEN {""}
    ELSE LET W == Words(n - 1) IN W \cup {w \o p : w \in W, p \in Pieces}

Buckets == Words(MaxPieces) \cup {"its-live-data"}
\* (the last key holds the gateway suffix between the two halves of "http")
Keys == Words(MaxPieces) \cup {"datacubes/catalog_v02.json", "ht" \o Gateway \o "tp"}

Publish(b, k) == "http://" \o b \o Gateway \o "/" \o k

OtherUrls ==
    { "http://store.example.com/bucket/key",
      "https://its-live-data.s3.amazonaws.com/datacubes/catalog_v02.json",
      "s3://its-live-data/datacubes/catalog_v02.json",
      "" }

RemoteObjects ==
    { "s3://its-live-data/datacubes/catalog_v02.json",
      "s3://k/k" }

(***************************************************************************)
(* Every function before its call                                          *)
(***************************************************************************)

IdleTranslate ==
    /\ http_url = ""
    /\ bucket = ""
    /\ key = ""
    /\ published = FALSE
    /\ s3_url = None
    /\ zone_s3_url = None
    /\ datacube = None
    /\ s3_again = None
    /\ tpc = "idle"

IdlePoint ==
    /\ input_point = <<>>
    /\ granule = 0
    /\ target_granule_urls = <<>>
    /\ point_result = NoList
    /\ point_error = None
    /\ point_prev = <<>>
    /\ ppc = "idle"

IdleZone ==
    /\ epsg_code = None
    /\ zgranule = 0
    /\ zs3_url = None
    /\ url_ls = <<>>
    /\ probes = <<>>
    /\ zone_result = NoList
    /\ zone_error = None
    /\ zone_prev = <<>>
    /\ store_changed = FALSE
    /\ zpc = "idle"

IdleBbox ==
    /\ input_xr = None
    /\ xr_at_call = None
    /\ extrema = None
    /\ pts_ls = <<>>
    /\ crs = None
    /\ polygon = None
    /\ figure = None
    /\ bbox_result = None
    /\ bbox_error = None
    /\ bpc = "idle"

IdleCaller ==
    /\ bbox_dc = None
    /\ caller_error = None
    /\ cpc = "idle"

IdleGroup ==
    /\ input_ls = <<>>
    /\ bounds = <<>>
    /\ xr_obj = 0
    /\ poly_ls = <<>>
    /\ group_figure = None
    /\ group_error = None
    /\ gpc = "idle"

IdleGlacier ==
    /\ RGIId = <<>>
    /\ RGI_int = <<>>
    /\ rgi_error = None
    /\ rpc = "idle"

IdleDup ==
    /\ mid_date = <<>>
    /\ element = 0
    /\ printed = <<>>
    /\ isel_max = -1
    /\ dup_error = None
    /\ dpc = "idle"

IdleCov ==
    /\ raster_v = <<>>
    /\ valid_pixels = <<>>
    /\ valid_pix_max = 0
    /\ cov = <<>>
    /\ covpc = "idle"

IdleFlow ==
    /\ nb_url = NoList
    /\ flow_error = None
    /\ fpc = "idle"

IdleWorkflow ==
    /\ runs = <<>>
    /\ gh_pages = <<>>

IdleOthers ==
    /\ IdleGlacier
    /\ IdleDup
    /\ IdleCov
    /\ IdleFlow
    /\ IdleWorkflow

IdleHelpers ==
    /\ IdleTranslate
    /\ IdlePoint
    /\ IdleZone
    /\ IdleBbox
    /\ IdleCaller
    /\ IdleGroup
    /\ itslive_catalog = <<>>
    /\ remote = {}

(***************************************************************************)
(* read_in_s3                                                              *)
(***************************************************************************)

InitTranslate ==
    /\ \/ \E b \in Buckets, k \in Keys :
            /\ http_url = Publish(b, k)
            /\ bucket = b
            /\ key = k
            /\ published = TRUE
       \/ /\ http_url \in OtherUrls
          /\ bucket = ""
          /\ key = ""
          /\ published = FALSE
    /\ s3_url = None
    /\ zone_s3_url = None
    /\ datacube = None
    /\ s3_again = None
    /\ tpc = "line192"
    /\ remote \in {{}, RemoteObjects}
    /\ itslive_catalog = <<>>
    /\ IdlePoint
    /\ IdleZone
    /\ IdleBbox
    /\ IdleCaller
    /\ IdleGroup
    /\ IdleOthers

\* s3_url = http_url.replace('http','s3')
ReadInS3Line192 ==
    /\ tpc = "line192"
    /\ s3_url' = ReadInS3Scheme(http_url)
    /\ tpc' = "line193"
    /\ UNCHANGED <<http_url, bucket, key, published, zone_s3_url, datacube, s3_again,
                   remote, notTranslate>>

\* s3_url = s3_url.replace('.s3.amazonaws.com','')
ReadInS3Line193 ==
    /\ tpc = "line193"
    /\ s3_url' = ReadInS3Gateway(s3_url)
    /\ tpc' = "open"
    /\ UNCHANGED <<http_url, bucket, key, published, zone_s3_url, datacube, s3_again,
                   remote, notTranslate>>

\* datacube = xr.open_dataset(s3_url, ...); return datacube
ReadInS3Open ==
    /\ tpc = "open"
    /\ IF s3_url \in remote
       THEN datacube' = s3_url /\ tpc' = "returned"
       ELSE datacube' = None /\ tpc' = "raised"
    /\ UNCHANGED <<http_url, bucket, key, published, s3_url, zone_s3_url, s3_again,
                   remote, notTranslate>>

\* s3_url = http_url.replace('http','s3').replace('.s3.amazonaws.com','')
ZoneLine322 ==
    /\ tpc \in {"returned", "raised"}
    /\ zone_s3_url = None
    /\ zone_s3_url' = ZoneTranslate(http_url)
    /\ UNCHANGED <<http_url, bucket, key, published, s3_url, datacube, s3_again, tpc,
                   remote, notTranslate>>

\* dc_ls = [read_in_s3(x) for x in granule_ls_32645]: read_in_s3 is handed a
\* locator the zone lookup returned, and runs its two replace statements on it
ReadInS3OfZoneUrl ==
    /\ zone_s3_url # None
    /\ s3_again = None
    /\ s3_again' = ReadInS3Gateway(ReadInS3Scheme(zone_s3_url))
    /\ UNCHANGED <<http_url, bucket, key, published, s3_url, zone_s3_url, datacube, tpc,
                   remote, notTranslate>>

NextTranslate ==
    \/ ReadInS3Line192
    \/ ReadInS3Line193
    \/ ReadInS3Open
    \/ ZoneLine322
    \/ ReadInS3OfZoneUrl

SpecTranslate == InitTranslate /\ [][NextTranslate]_vars

(***************************************************************************)
(* Geometry (shapely, on an integer grid)                                  *)
(***************************************************************************)

GridMax == 4

Grid == 0..GridMax

\* the range of a longitude and of a latitude, in degrees
LonMax == 180
LatMax == 90

OutOfRange(p) == p[1] < -LonMax \/ p[1] > LonMax \/ p[2] < -LatMax \/ p[2] > LatMax

\* the points a caller may ask about: [lon, lat] on the grid, and four that
\* are no place on Earth
Points ==
    {<<x, y>> : x \in Grid, y \in Grid}
        \cup { <<LonMax + 1, 1>>, <<-LonMax - 1, 1>>, <<1, LatMax + 1>>, <<1, -LatMax - 1>> }

Lo(a, b) == IF a <= b THEN a ELSE b
Hi(a, b) == IF a <= b THEN b ELSE a

\* > 0 when p is left of the directed line a -> b, 0 when on it
Cross(a, b, p) == (b[1] - a[1]) * (p[2] - a[2]) - (b[2] - a[2]) * (p[1] - a[1])

OnSegment(a, b, p) ==
    /\ Cross(a, b, p) = 0
    /\ Lo(a[1], b[1]) <= p[1] /\ p[1] <= Hi(a[1], b[1])
    /\ Lo(a[2], b[2]) <= p[2] /\ p[2] <= Hi(a[2], b[2])

Edges(ring) == 1..(Len(ring) - 1)

\* p lies on the ring itself
OnBoundary(ring, p) == \E i \in Edges(ring) : OnSegment(ring[i], ring[i + 1], p)

\* the edge a -> b crosses the horizontal ray that leaves p to the right
RayCrosses(a, b, p) ==
    /\ (a[2] > p[2]) # (b[2] > p[2])
    /\ LET dy == b[2] - a[2]
           lhs == (p[1] - a[1]) * dy
           rhs == (p[2] - a[2]) * (b[1] - a[1])
       IN  IF dy > 0 THEN lhs < rhs ELSE lhs > rhs

OddCrossings(ring, p) ==
    Cardinality({i \in Edges(ring) : RayCrosses(ring[i], ring[i + 1], p)}) % 2 = 1

\* Polygon(ring).covers(Point(p)): interior or boundary
PolygonCovers(ring, p) == OnBoundary(ring, p) \/ OddCrossings(ring, p)

\* Polygon(ring).contains(Point(p)): p is in the interior; a point of the
\* boundary is not contained
PolygonContains(ring, p) == ~OnBoundary(ring, p) /\ OddCrossings(ring, p)

(***************************************************************************)
(* The catalog                                                             *)
(***************************************************************************)

MaxFeatures == 3

UrlA == "http://its-live-data.s3.amazonaws.com/a.zarr"
UrlB == "http://its-live-data.s3.amazonaws.com/b.zarr"
UrlExample == "http://example.com/a.zarr"

\* footprints: closed rings, counter-clockwise and clockwise
SquareRing == << <<0, 0>>, <<2, 0>>, <<2, 2>>, <<0, 2>>, <<0, 0>> >>
SquareRingCw == << <<1, 1>>, <<1, 3>>, <<3, 3>>, <<3, 1>>, <<1, 1>> >>
DiamondRing == << <<2, 0>>, <<4, 2>>, <<2, 4>>, <<0, 2>>, <<2, 0>> >>
TriangleRing == << <<0, 0>>, <<4, 0>>, <<0, 4>>, <<0, 0>> >>

AllKeys == {"coordinates", "data_epsg", "zarr_url"}

\* feature['geometry']['coordinates'][0], feature['properties']['data_epsg'],
\* feature['properties']['zarr_url'], and the keys the dictionaries hold
Feature(ring, epsg, url) ==
    [coordinates |-> ring, data_epsg |-> epsg, zarr_url |-> url, keys |-> AllKeys]

\* the same feature without key k
Without(f, k) ==
    [coordinates |-> IF k = "coordinates" THEN <<>> ELSE f.coordinates,
     data_epsg |-> IF k = "data_epsg" THEN "" ELSE f.data_epsg,
     zarr_url |-> IF k = "zarr_url" THEN "" ELSE f.zarr_url,
     keys |-> f.keys \ {k}]

\* f[k] does not raise KeyError
Has(f, k) == k \in f.keys

Features ==
    { Feature(SquareRing, "EPSG:32645", UrlA),
      Feature(SquareRingCw, "EPSG:32645", UrlB),
      Feature(DiamondRing, "EPSG:32646", UrlA),
      Feature(TriangleRing, "EPSG:32646", UrlExample),
      Without(Feature(SquareRing, "EPSG:32645", UrlA), "coordinates"),
      Without(Feature(SquareRing, "EPSG:32646", UrlB), "zarr_url"),
      Without(Feature(SquareRingCw, "EPSG:32645", UrlB), "data_epsg") }

RECURSIVE SeqsUpTo(_, _)
SeqsUpTo(S, n) ==
    IF n = 0 THEN {<<>>}
    ELSE LET Q == SeqsUpTo(S, n - 1)
         IN  Q \cup {Append(q, e) : q \in {r \in Q : Len(r) = n - 1}, e \in S}

Catalogs == SeqsUpTo(Features, MaxFeatures)

(***************************************************************************)
(* find_granule_by_point                                                   *)
(***************************************************************************)

\* a test that also accepts the points of the boundary
FootprintCovers(bbox_ls, point) == PolygonCovers(bbox_ls, point)

\* bbox_gdf.contains(point_gdf).all() == True, for the one-row frames the
\* function builds (both indexed 0)
FootprintMatches(bbox_ls, point) == PolygonContains(bbox_ls, point)

InitPoint ==
    /\ itslive_catalog \in Catalogs
    /\ IdlePoint
    /\ IdleZone
    /\ IdleBbox
    /\ IdleTranslate
    /\ IdleCaller
    /\ IdleGroup
    /\ remote = {}
    /\ IdleOthers

\* a list that outlives the call (a module-level list, a default argument)
KeptList(old) == old

\* no list of the function's own: the name resolves to the notebook's global
\* url_ls, which holds what find_granule_by_point returned (line 506)
GlobalList(old) == IF ppc = "returned" THEN point_result ELSE old

\* target_granule_urls = [] and url_ls = []: each call builds a list of its own
NewList(old) == <<>>

\* an append that runs twice for one feature
AppendUrlTwice(list, url) == Append(Append(list, url), url)

\* target_granule_urls.append(target_url)
AppendUrl(list, url) == Append(list, url)

\* a call that looks at the range of the point first
RejectsOutOfRange(p) == OutOfRange(p)

\* point_geom = Point(input_point[0], input_point[1]) takes any two numbers:
\* the function rejects no point
RejectsPoint(p) == FALSE

\* a loop that waits at the end of the catalog for a feature yet to come
WaitsForMore(g) == FALSE

\* for granule in range(len(catalog['features'])): the range is used up, the
\* for statement ends
RangeDone(g) == g = Len(itslive_catalog)

\* the call, up to the for statement
FindGranuleByPointCall ==
    /\ ppc = "idle"
    /\ \E p \in Points : input_point' = p
    /\ target_granule_urls' = NewList(target_granule_urls)
    /\ granule' = 0
    /\ IF RejectsPoint(input_point')
       THEN point_error' = "InvalidInput" /\ ppc' = "raised"
       ELSE point_error' = point_error /\ ppc' = "loop"
    /\ UNCHANGED <<point_result, point_prev, itslive_catalog, notPoint>>

\* one pass of the loop body
FindGranuleByPointBody ==
    /\ ppc = "loop"
    /\ granule < Len(itslive_catalog)
    /\ LET f == itslive_catalog[granule + 1]
       IN  IF ~Has(f, "coordinates")
           THEN /\ point_error' = "KeyError"
                /\ ppc' = "raised"
                /\ UNCHANGED <<granule, target_granule_urls>>
           ELSE IF FootprintMatches(f.coordinates, input_point)
           THEN IF ~Has(f, "zarr_url")
                THEN /\ point_error' = "KeyError"
                     /\ ppc' = "raised"
                     /\ UNCHANGED <<granule, target_granule_urls>>
                ELSE /\ target_granule_urls' = AppendUrl(target_granule_urls, f.zarr_url)
                     /\ granule' = granule + 1
                     /\ UNCHANGED <<point_error, ppc>>
           ELSE /\ granule' = granule + 1
                /\ UNCHANGED <<target_granule_urls, point_error, ppc>>
    /\ UNCHANGED <<input_point, point_result, point_prev,
                 itslive_catalog, notPoint>>

\* return target_granule_urls
FindGranuleByPointReturn ==
    /\ ppc = "loop"
    /\ RangeDone(granule)
    /\ ppc' = "returned"
    /\ point_result' = target_granule_urls
    /\ UNCHANGED <<input_point, granule, target_granule_urls, point_error,
                   point_prev,
                 itslive_catalog, notPoint>>

\* the caller repeats the call with the same catalog and the same point
FindGranuleByPointCallAgain ==
    /\ ppc = "returned"
    /\ point_prev' = <<point_result>>
    /\ target_granule_urls' = NewList(target_granule_urls)
    /\ granule' = 0
    /\ point_result' = NoList
    /\ ppc' = "loop"
    /\ UNCHANGED <<input_point, point_error, itslive_catalog, notPoint>>

NextPoint ==
    \/ FindGranuleByPointCall
    \/ FindGranuleByPointBody
    \/ FindGranuleByPointReturn
    \/ FindGranuleByPointCallAgain

SpecPoint == InitPoint /\ [][NextPoint]_vars

(***************************************************************************)
(* find_granules_by_zone                                                   *)
(***************************************************************************)

\* the zone identifiers a caller may ask for
ZoneCodes == {"EPSG:32645", "EPSG:32646", "epsg:32645"}

\* the objects the store of the datacubes may hold
GranuleObjects == {"s3://its-live-data/a.zarr", "s3://its-live-data/b.zarr"}

\* the zone test of a lookup that ignores the letter case of the identifier
ZoneMatchesAnyCase(f, code) ==
    \/ f.data_epsg = code
    \/ <<f.data_epsg, code>> \in {<<"EPSG:32645", "epsg:32645">>, <<"epsg:32645", "EPSG:32645">>}

\* input_dict['features'][granule]['properties']['data_epsg'] == epsg_code
ZoneMatches(f, code) == f.data_epsg = code

\* a filter that keeps every probed locator
KeepsEveryUrl(answer) == answer \in {"exists", "missing"}

\* if fs.lexists(s3_url) == True
KeepsUrl(answer) == answer = "exists"

InitZone ==
    /\ itslive_catalog \in Catalogs
    /\ remote \in SUBSET GranuleObjects
    /\ IdleZone
    /\ IdlePoint
    /\ IdleBbox
    /\ IdleTranslate
    /\ IdleCaller
    /\ IdleGroup
    /\ IdleOthers

\* the call, up to the for statement
FindGranulesByZoneCall ==
    /\ zpc = "idle"
    /\ \E z \in ZoneCodes : epsg_code' = z
    /\ url_ls' = NewList(url_ls)
    /\ zgranule' = 0
    /\ zpc' = "loop"
    /\ UNCHANGED <<zs3_url, probes, zone_result, zone_error, remote, zone_prev,
                 store_changed, itslive_catalog, notZone>>

\* one pass of the loop body up to the call of fs.lexists
FindGranulesByZoneBody ==
    /\ zpc = "loop"
    /\ zgranule < Len(itslive_catalog)
    /\ LET f == itslive_catalog[zgranule + 1]
       IN  IF ~Has(f, "data_epsg")
           THEN /\ zone_error' = "KeyError"
                /\ zpc' = "raised"
                /\ UNCHANGED <<zgranule, zs3_url>>
           ELSE IF ZoneMatches(f, epsg_code)
           THEN IF ~Has(f, "zarr_url")
                THEN /\ zone_error' = "KeyError"
                     /\ zpc' = "raised"
                     /\ UNCHANGED <<zgranule, zs3_url>>
                ELSE /\ zs3_url' = ZoneTranslate(f.zarr_url)
                     /\ zpc' = "lexists"
                     /\ UNCHANGED <<zgranule, zone_error>>
           ELSE /\ zgranule' = zgranule + 1
                /\ UNCHANGED <<zs3_url, zone_error, zpc>>
    /\ UNCHANGED <<epsg_code, url_ls, probes, zone_result, remote, zone_prev,
                 store_changed, itslive_catalog, notZone>>

\* a loop that asks again about a locator the store did not have
RetryWhenMissing(g, answer) == IF answer = "missing" THEN g ELSE g + 1

\* the for statement moves on to the next feature whatever the answer was
AfterProbe(g, answer) == g + 1

\* fs.lexists(s3_url) answers, and the if statement acts on the answer
FindGranulesByZoneProbe ==
    /\ zpc = "lexists"
    /\ LET answer == IF zs3_url \in remote THEN "exists" ELSE "missing"
       IN  /\ probes' = Append(probes, [granule |-> zgranule, s3_url |-> zs3_url,
                                        answer |-> answer])
           /\ url_ls' = IF KeepsUrl(answer) THEN Append(url_ls, zs3_url) ELSE url_ls
           /\ zgranule' = AfterProbe(zgranule, answer)
    /\ zpc' = "loop"
    /\ UNCHANGED <<epsg_code, zs3_url, zone_result, zone_error, remote, zone_prev,
                 store_changed, itslive_catalog, notZone>>

\* fs.lexists(s3_url) raises (the store cannot be reached); nothing catches it
FindGranulesByZoneProbeRaises ==
    /\ zpc = "lexists"
    /\ probes' = Append(probes, [granule |-> zgranule, s3_url |-> zs3_url,
                                 answer |-> "error"])
    /\ zone_error' = "ConnectionError"
    /\ zpc' = "raised"
    /\ UNCHANGED <<epsg_code, zgranule, zs3_url, url_ls, zone_result, remote,
                   zone_prev,
                 store_changed, itslive_catalog, notZone>>

\* return url_ls
FindGranulesByZoneReturn ==
    /\ zpc = "loop"
    /\ RangeDone(zgranule)
    /\ zpc' = "returned"
    /\ zone_result' = url_ls
    /\ UNCHANGED <<epsg_code, zgranule, zs3_url, url_ls, probes, zone_error, remote,
                   zone_prev,
                 store_changed, itslive_catalog, notZone>>

\* the caller repeats the call with the same catalog and the same zone
FindGranulesByZoneCallAgain ==
    /\ zpc = "returned"
    /\ zone_prev' = <<zone_result>>
    /\ url_ls' = NewList(url_ls)
    /\ zgranule' = 0
    /\ probes' = <<>>
    /\ zone_result' = NoList
    /\ zpc' = "loop"
    /\ UNCHANGED <<epsg_code, zs3_url, zone_error, store_changed, remote,
                   itslive_catalog, notZone>>

\* the store's owner adds or removes a datacube while a lookup runs (a change
\* between two lookups is a change before the first pass of the second)
RemoteChange ==
    /\ zpc \in {"loop", "lexists"}
    /\ \E o \in GranuleObjects :
          remote' = IF o \in remote THEN remote \ {o} ELSE remote \cup {o}
    /\ store_changed' = TRUE
    /\ UNCHANGED <<epsg_code, zgranule, zs3_url, url_ls, probes, zone_result, zone_error,
                   zone_prev, zpc, itslive_catalog, notZone>>

NextZone ==
    \/ FindGranulesByZoneCall
    \/ FindGranulesByZoneBody
    \/ FindGranulesByZoneProbe
    \/ FindGranulesByZoneProbeRaises
    \/ FindGranulesByZoneReturn
    \/ FindGranulesByZoneCallAgain
    \/ RemoteChange

SpecZone == InitZone /\ [][NextZone]_vars

(***************************************************************************)
(* get_bbox_single                                                         *)
(***************************************************************************)

MaxAxis == 2
CoordMax == 2

\* the coordinate axes a datacube may carry (x ascending, y usually descending)
Axes == SeqsUpTo(0..CoordMax, MaxAxis)

\* the values of mapping.spatial_epsg; 0 stands for a dataset without it
NoEpsg == 0
EpsgCodes == {32645, 32646}

Datasets == [x : Axes, y : Axes, spatial_epsg : EpsgCodes \cup {NoEpsg}]

\* an array's first element, which is its minimum only if it ascends
ArrayFirst(a) == a[1]

\* numpy's a.min() of a non-empty array
RECURSIVE ArrayMin(_)
ArrayMin(a) ==
    IF Len(a) = 1 THEN a[1]
    ELSE LET m == ArrayMin(SubSeq(a, 1, Len(a) - 1))
         IN  IF a[Len(a)] < m THEN a[Len(a)] ELSE m

\* numpy's a.max() of a non-empty array
RECURSIVE ArrayMax(_)
ArrayMax(a) ==
    IF Len(a) = 1 THEN a[1]
    ELSE LET m == ArrayMax(SubSeq(a, 1, Len(a) - 1))
         IN  IF a[Len(a)] > m THEN a[Len(a)] ELSE m

\* an array sorted in place, least first
RECURSIVE SortedArray(_)
SortedArray(a) ==
    IF Len(a) <= 1 THEN a
    ELSE LET i == CHOOSE k \in 1..Len(a) : a[k] = ArrayMin(a)
         IN  <<a[i]>> \o SortedArray(SubSeq(a, 1, i - 1) \o SubSeq(a, i + 1, Len(a)))

\* a dataset whose axes were sorted in place to find the extrema
AxesSortedInPlace(ds) == [ds EXCEPT !.x = SortedArray(ds.x), !.y = SortedArray(ds.y)]

\* the dataset after .coords['x'].data.min() ... .coords['y'].data.max():
\* the reductions read the arrays and leave them as they are
AfterExtrema(ds) == ds

\* a dataset whose projection is taken to be there (crs = 'epsg:32645')
HasSpatialEpsgAlways(ds) == TRUE

\* input_xr.mapping.spatial_epsg can be read
HasSpatialEpsg(ds) == ds.spatial_epsg # NoEpsg

\* the central meridian of the UTM zone of an EPSG code, in grid units
CentralMeridian(epsg) == IF epsg = 32645 THEN 87 ELSE 93

\* GeoDataFrame.to_crs('epsg:4326') of one vertex: eastings are measured from
\* the zone's central meridian, and the grid lines of the projection are not
\* the meridians (the rectangle comes out skewed)
ToGeographic(epsg, pt) == <<CentralMeridian(epsg) + pt[1] - pt[2], pt[2]>>

InitBbox ==
    /\ input_xr \in Datasets
    /\ xr_at_call = input_xr
    /\ extrema = None
    /\ pts_ls = <<>>
    /\ crs = None
    /\ polygon = None
    /\ figure = None
    /\ bbox_result = None
    /\ bbox_error = None
    /\ bpc = "line135"
    /\ itslive_catalog = <<>>
    /\ remote = {}
    /\ IdlePoint
    /\ IdleZone
    /\ IdleTranslate
    /\ IdleCaller
    /\ IdleGroup
    /\ IdleOthers

\* xmin = input_xr.coords['x'].data.min() ... pts_ls = [...]
GetBboxSingleExtrema ==
    /\ bpc = "line135"
    /\ IF Len(input_xr.x) = 0 \/ Len(input_xr.y) = 0
       THEN /\ bbox_error' = "ValueError"
            /\ bpc' = "raised"
            /\ UNCHANGED <<extrema, pts_ls>>
       ELSE LET xmin == ArrayMin(input_xr.x)
                xmax == ArrayMax(input_xr.x)
                ymin == ArrayMin(input_xr.y)
                ymax == ArrayMax(input_xr.y)
            IN  /\ extrema' = [xmin |-> xmin, xmax |-> xmax, ymin |-> ymin, ymax |-> ymax]
                /\ pts_ls' = << <<xmin, ymin>>, <<xmax, ymin>>, <<xmax, ymax>>,
                                <<xmin, ymax>>, <<xmin, ymin>> >>
                /\ bpc' = "line145"
                /\ UNCHANGED bbox_error
    /\ input_xr' = AfterExtrema(input_xr)
    /\ UNCHANGED <<xr_at_call, crs, polygon, figure, bbox_result, notBbox>>

\* crs = f"epsg:{input_xr.mapping.spatial_epsg}"
GetBboxSingleCrs ==
    /\ bpc = "line145"
    /\ IF HasSpatialEpsg(input_xr)
       THEN /\ crs' = input_xr.spatial_epsg
            /\ bpc' = "line150"
            /\ UNCHANGED bbox_error
       ELSE /\ bbox_error' = "AttributeError"
            /\ bpc' = "raised"
            /\ UNCHANGED crs
    /\ UNCHANGED <<input_xr, xr_at_call, extrema, pts_ls, polygon, figure, bbox_result, notBbox>>

\* polygon_geom = Polygon(pts_ls); polygon = gpd.GeoDataFrame(...);
\* polygon = polygon.to_crs('epsg:4326')
GetBboxSinglePolygon ==
    /\ bpc = "line150"
    /\ polygon' = [crs |-> "epsg:4326",
                   geometry |-> << [i \in 1..Len(pts_ls) |-> ToGeographic(crs, pts_ls[i])] >>]
    /\ bpc' = "line154"
    /\ UNCHANGED <<input_xr, xr_at_call, extrema, pts_ls, crs, figure, bbox_result,
                   bbox_error, notBbox>>

\* bounds = polygon.total_bounds ... polygon.plot(ax=ax, ...); the function
\* ends without a return statement, so the call evaluates to None
GetBboxSinglePlot ==
    /\ bpc = "line154"
    /\ figure' = [extent |-> "bounds +- 15", outline |-> polygon.geometry[1]]
    /\ bbox_result' = None
    /\ bpc' = "returned"
    /\ UNCHANGED <<input_xr, xr_at_call, extrema, pts_ls, crs, polygon, bbox_error, notBbox>>

\* GeoDataFrame.to_crs(code) of one vertex of a geographic rectangle: the
\* inverse of ToGeographic for the zone the caller names
ToNative(epsg, pt) == <<pt[1] - CentralMeridian(epsg) + pt[2], pt[2]>>

\* the zone the caller projects back to: to_crs('EPSG:32645')
CallerEpsg == 32645

\* bbox_dc = itslivetools.get_bbox_single(dc): the call's value is bound
CallerAssign ==
    /\ bpc = "returned"
    /\ cpc = "idle"
    /\ bbox_dc' = bbox_result
    /\ cpc' = "line312"
    /\ UNCHANGED <<caller_error, notCaller>>

\* bbox_dc = bbox_dc.to_crs('EPSG:32645'): None has no method to_crs
CallerToCrs ==
    /\ cpc = "line312"
    /\ IF bbox_dc = None
       THEN /\ caller_error' = "AttributeError"
            /\ cpc' = "raised"
            /\ UNCHANGED bbox_dc
       ELSE /\ bbox_dc' = [crs |-> "EPSG:32645",
                           geometry |-> << [i \in 1..Len(bbox_dc.geometry[1]) |->
                                              ToNative(CallerEpsg, bbox_dc.geometry[1][i])] >>]
            /\ cpc' = "done"
            /\ UNCHANGED caller_error
    /\ UNCHANGED notCaller

NextBbox ==
    \/ GetBboxSingleExtrema
    \/ GetBboxSingleCrs
    \/ GetBboxSinglePolygon
    \/ GetBboxSinglePlot
    \/ CallerAssign
    \/ CallerToCrs

SpecBbox == InitBbox /\ [][NextBbox]_vars

(***************************************************************************)
(* get_bbox_group                                                          *)
(***************************************************************************)

MaxGroup == 2

\* the datacubes a list may hold
GroupDatasets ==
    { [x |-> <<0, 2>>, y |-> <<2, 0>>, spatial_epsg |-> 32645],
      [x |-> <<2, 1>>, y |-> <<1>>, spatial_epsg |-> 32646],
      [x |-> <<>>, y |-> <<0>>, spatial_epsg |-> 32645],
      [x |-> <<1>>, y |-> <<1, 2>>, spatial_epsg |-> NoEpsg] }

\* bounds: the default of the signature, and the one the notebook passes
GroupBounds == { <<-180, 180, -90, 90>>, <<70, 98, 20, 60>> }

InitGroup ==
    /\ input_ls \in SeqsUpTo(GroupDatasets, MaxGroup)
    /\ bounds \in GroupBounds
    /\ xr_obj = 0
    /\ poly_ls = <<>>
    /\ group_figure = None
    /\ group_error = None
    /\ gpc = "loop"
    /\ itslive_catalog = <<>>
    /\ remote = {}
    /\ IdlePoint
    /\ IdleZone
    /\ IdleTranslate
    /\ IdleBbox
    /\ IdleCaller
    /\ IdleOthers

\* one pass of the first loop: extrema, pts_ls, crs, polygon, poly_ls.append
GetBboxGroupBody ==
    /\ gpc = "loop"
    /\ xr_obj < Len(input_ls)
    /\ LET ds == input_ls[xr_obj + 1]
       IN  IF Len(ds.x) = 0 \/ Len(ds.y) = 0
           THEN /\ group_error' = "ValueError"
                /\ gpc' = "raised"
                /\ UNCHANGED <<xr_obj, poly_ls>>
           ELSE IF ~HasSpatialEpsg(ds)
           THEN /\ group_error' = "AttributeError"
                /\ gpc' = "raised"
                /\ UNCHANGED <<xr_obj, poly_ls>>
           ELSE LET xmin == ArrayMin(ds.x)
                    xmax == ArrayMax(ds.x)
                    ymin == ArrayMin(ds.y)
                    ymax == ArrayMax(ds.y)
                    pts == << <<xmin, ymin>>, <<xmax, ymin>>, <<xmax, ymax>>,
                              <<xmin, ymax>>, <<xmin, ymin>> >>
                IN  /\ poly_ls' = Append(poly_ls,
                          [crs |-> "epsg:4326",
                           geometry |-> << [i \in 1..Len(pts) |->
                                              ToGeographic(ds.spatial_epsg, pts[i])] >>])
                    /\ xr_obj' = xr_obj + 1
                    /\ UNCHANGED <<group_error, gpc>>
    /\ input_ls' = [input_ls EXCEPT ![xr_obj + 1] = AfterExtrema(@)]
    /\ UNCHANGED <<bounds, group_figure, notGroup>>

\* bounds_format = [...]; fig = plt.figure() ... poly_ls[element].plot(ax=ax, ...);
\* the function ends without a return statement
GetBboxGroupPlot ==
    /\ gpc = "loop"
    /\ xr_obj = Len(input_ls)
    /\ group_figure' = [extent |-> <<bounds[1], bounds[2], bounds[3], bounds[4]>>,
                        outlines |-> [i \in 1..Len(poly_ls) |-> poly_ls[i].geometry[1]]]
    /\ gpc' = "returned"
    /\ UNCHANGED <<input_ls, bounds, xr_obj, poly_ls, group_error, notGroup>>

NextGroup ==
    \/ GetBboxGroupBody
    \/ GetBboxGroupPlot

SpecGroup == InitGroup /\ [][NextGroup]_vars

(***************************************************************************)
(* A session that uses one of the helpers, as often as it likes            *)
(***************************************************************************)

InitHelpers == InitTranslate \/ InitPoint \/ InitZone \/ InitBbox \/ InitGroup

\* one helper at a time; the point lookup, which never reads the store, is
\* followed where the store is empty
NextHelpers ==
    \/ NextTranslate
    \/ tpc = "idle" /\ bpc = "idle" /\ gpc = "idle" /\ zpc = "idle" /\ remote = {} /\ NextPoint
    \/ tpc = "idle" /\ bpc = "idle" /\ gpc = "idle" /\ ppc = "idle" /\ NextZone
    \/ NextBbox
    \/ NextGroup

SpecHelpers == InitHelpers /\ [][NextHelpers]_vars

(***************************************************************************)
(* The two lookups and get_bbox_single called at once, over one catalog    *)
(* and one store, their steps interleaved in any order                     *)
(***************************************************************************)

MaxShared == 2

WellFormed == {f \in Features : f.keys = AllKeys}

SharedCatalogs == SeqsUpTo(WellFormed, MaxShared)

SharedPoints == { <<1, 1>>, <<2, 2>>, <<0, 0>> }

InitConcurrent ==
    /\ itslive_catalog \in SharedCatalogs
    /\ remote \in {{}, GranuleObjects}
    /\ IdlePoint
    /\ IdleZone
    /\ IdleTranslate
    /\ IdleCaller
    /\ IdleGroup
    /\ input_xr \in GroupDatasets
    /\ xr_at_call = input_xr
    /\ extrema = None
    /\ pts_ls = <<>>
    /\ crs = None
    /\ polygon = None
    /\ figure = None
    /\ bbox_result = None
    /\ bbox_error = None
    /\ bpc = "line135"
    /\ IdleOthers

NextConcurrent ==
    \/ input_point' \in SharedPoints /\ FindGranuleByPointCall
    \/ FindGranuleByPointBody
    \/ FindGranuleByPointReturn
    \/ FindGranulesByZoneCall
    \/ FindGranulesByZoneBody
    \/ FindGranulesByZoneProbe
    \/ FindGranulesByZoneProbeRaises
    \/ FindGranulesByZoneReturn
    \/ GetBboxSingleExtrema
    \/ GetBboxSingleCrs
    \/ GetBboxSinglePolygon
    \/ GetBboxSinglePlot

SpecConcurrent == InitConcurrent /\ [][NextConcurrent]_vars

(***************************************************************************)
(* The point lookup: C1, C2                                                *)
(***************************************************************************)

\* p is strictly on one side of every edge of a convex ring: p is an interior
\* point, whichever way round the ring runs
StrictlyInside(ring, p) ==
    \/ \A i \in Edges(ring) : Cross(ring[i], ring[i + 1], p) > 0
    \/ \A i \in Edges(ring) : Cross(ring[i], ring[i + 1], p) < 0

\* the locators of the first n features whose footprint has p in its interior
RECURSIVE InteriorLocators(_, _, _)
InteriorLocators(cat, n, p) ==
    IF n = 0 THEN <<>>
    ELSE IF StrictlyInside(cat[n].coordinates, p)
         THEN Append(InteriorLocators(cat, n - 1, p), cat[n].zarr_url)
         ELSE InteriorLocators(cat, n - 1, p)

\* C1: when find_granule_by_point returns, its result holds exactly the
\* zarr_url of every feature whose footprint polygon contains the point (the
\* point is in its interior), one entry per such feature, in catalog order;
\* it is empty when no footprint contains the point.
C1_PointLookupExact ==
    ppc = "returned" =>
        /\ point_result = InteriorLocators(itslive_catalog, Len(itslive_catalog), input_point)
        /\ (\A i \in 1..Len(itslive_catalog) :
                ~StrictlyInside(itslive_catalog[i].coordinates, input_point))
              => point_result = <<>>

\* two overlapping footprints both hold the point and a third does not
C1_Witness ==
    /\ ppc = "returned"
    /\ Len(itslive_catalog) = 3
    /\ input_point = <<1, 1>>
    /\ point_result = <<UrlExample, UrlA>>

\* C2 as stated: a point on an edge or a vertex of a feature's footprint puts
\* that feature's locator in the result.
C2_BoundaryInclusive ==
    ppc = "returned" =>
        \A i \in 1..Len(itslive_catalog) :
            OnBoundary(itslive_catalog[i].coordinates, input_point)
                => \E j \in 1..Len(point_result) :
                       point_result[j] = itslive_catalog[i].zarr_url

(***************************************************************************)
(* The zone lookup: C3, C4                                                 *)
(***************************************************************************)

\* C3: every locator in the list find_granules_by_zone builds and returns is
\* the translated zarr_url of a feature whose data_epsg equals the requested
\* zone exactly and whose fs.lexists probe answered true during this call.
C3_OnlyMatchingReachable ==
    /\ \A j \in 1..Len(url_ls) :
          \E k \in 1..Len(probes) :
             LET f == itslive_catalog[probes[k].granule + 1]
             IN  /\ probes[k].answer = "exists"
                 /\ Has(f, "data_epsg") /\ f.data_epsg = epsg_code
                 /\ Has(f, "zarr_url")
                 /\ url_ls[j] = Replace(Replace(f.zarr_url, "http", "s3"), Gateway, "")
    /\ zpc = "returned" => zone_result = url_ls

\* a lookup returned one locator, from a catalog that also holds a feature of
\* another zone and a feature of the zone whose probe answered false
C3_Witness ==
    /\ zpc = "returned"
    /\ epsg_code = "EPSG:32645"
    /\ Len(zone_result) = 1
    /\ Len(probes) = 2
    /\ \E i \in 1..Len(itslive_catalog) : itslive_catalog[i].data_epsg = "EPSG:32646"

\* the answer fs.lexists gave for feature g (FALSE if it was not probed)
Exists(g) == \E k \in 1..Len(probes) : probes[k].granule = g /\ probes[k].answer = "exists"

\* the s3 locators of the features among the first n that are in zone z and
\* whose probe answered true
RECURSIVE ReachableInZone(_, _, _)
ReachableInZone(cat, n, z) ==
    IF n = 0 THEN <<>>
    ELSE IF cat[n].data_epsg = z /\ Exists(n - 1)
         THEN Append(ReachableInZone(cat, n - 1, z),
                     "s3" \o Drop(Replace(cat[n].zarr_url, Gateway, ""), 4))
         ELSE ReachableInZone(cat, n - 1, z)

\* C4: find_granules_by_zone returns, in catalog order, the s3 locator of
\* every feature of the zone whose probe answered that it exists; a probe
\* that answers "does not exist" drops the feature and raises nothing, and
\* the lookup goes on to return the other locators.
C4_ReachableInOrder ==
    /\ zpc = "returned" =>
          zone_result = ReachableInZone(itslive_catalog, Len(itslive_catalog), epsg_code)
    /\ zpc = "raised" =>
          \/ zone_error = "KeyError"
          \/ zone_error = "ConnectionError" /\ probes[Len(probes)].answer = "error"

\* a lookup returned the second of two locators after the first was missing
C4_Witness ==
    /\ zpc = "returned"
    /\ Len(probes) = 3
    /\ probes[1].answer = "missing"
    /\ probes[2].answer = "exists"
    /\ probes[3].answer = "exists"
    /\ zone_result = <<"s3://its-live-data/b.zarr", "s3://its-live-data/a.zarr">>

(***************************************************************************)
(* The locator translation: C5, C6, C7                                     *)
(***************************************************************************)

\* read_in_s3 has executed both of its replace statements
Translated == tpc \in {"open", "returned", "raised"}

Clean(w) == ~Contains(w, "http") /\ ~Contains(w, Gateway)

CatalogUrl == "http://its-live-data.s3.amazonaws.com/datacubes/catalog_v02.json"
CatalogS3Url == "s3://its-live-data/datacubes/catalog_v02.json"
ExampleUrl == "http://store.example.com/bucket/key"

\* C5: both copies of the translation map the catalog's published locator to
\* s3://its-live-data/datacubes/catalog_v02.json, and map every
\* http://<bucket>.s3.amazonaws.com/<key> to s3://<bucket>/<key> when <bucket>
\* and <key> contain neither "http" nor ".s3.amazonaws.com".
C5_TranslatesPublished ==
    /\ (Translated /\ http_url = CatalogUrl) => s3_url = CatalogS3Url
    /\ (zone_s3_url # None /\ http_url = CatalogUrl) => zone_s3_url = CatalogS3Url
    /\ (Translated /\ published /\ Clean(bucket) /\ Clean(key))
          => s3_url = "s3://" \o bucket \o "/" \o key
    /\ (zone_s3_url # None /\ published /\ Clean(bucket) /\ Clean(key))
          => zone_s3_url = "s3://" \o bucket \o "/" \o key

C5_Witness ==
    /\ tpc = "returned"
    /\ http_url = CatalogUrl
    /\ datacube = CatalogS3Url
    /\ zone_s3_url = CatalogS3Url

\* C6 as stated: http://store.example.com/bucket/key is translated to
\* s3://bucket/key.
C6_AsClaimed ==
    /\ (Translated /\ http_url = ExampleUrl) => s3_url = "s3://bucket/key"
    /\ (zone_s3_url # None /\ http_url = ExampleUrl) => zone_s3_url = "s3://bucket/key"

\* C6 amended: http://store.example.com/bucket/key holds no gateway suffix, so
\* only the scheme token changes: the result is s3://store.example.com/bucket/key.
C6_KeepsHost ==
    /\ (Translated /\ http_url = ExampleUrl)
          => s3_url = "s3://store.example.com/bucket/key"
    /\ (zone_s3_url # None /\ http_url = ExampleUrl)
          => zone_s3_url = "s3://store.example.com/bucket/key"

C6_Witness ==
    /\ http_url = ExampleUrl
    /\ tpc = "raised"
    /\ s3_url = "s3://store.example.com/bucket/key"
    /\ zone_s3_url = "s3://store.example.com/bucket/key"

\* C7 as stated: for every published locator http:// + bucket +
\* .s3.amazonaws.com + path the result is s3:// + bucket + path, also when the
\* bucket or the path holds "http" or ".s3.amazonaws.com" a second time.
C7_OnlySchemeAndHost ==
    /\ (Translated /\ published) => s3_url = "s3://" \o bucket \o "/" \o key
    /\ (zone_s3_url # None /\ published)
          => zone_s3_url = "s3://" \o bucket \o "/" \o key

(***************************************************************************)
(* The bounding box: C8, C9, C10                                           *)
(***************************************************************************)

\* C8 as stated: get_bbox_single returns to its caller a single-polygon
\* record tagged epsg:4326 that holds the dataset's bounding rectangle.
C8_ReturnsRecord ==
    bpc = "returned" =>
        /\ bbox_result # None
        /\ bbox_result = polygon

\* v is the least (greatest) value of array a
IsLeast(v, a) == (\E i \in 1..Len(a) : a[i] = v) /\ (\A i \in 1..Len(a) : v <= a[i])
IsGreatest(v, a) == (\E i \in 1..Len(a) : a[i] = v) /\ (\A i \in 1..Len(a) : v >= a[i])

\* the polygon has been built
Built == bpc \in {"line145", "line150", "line154", "returned"} \/ (bpc = "raised" /\ pts_ls # <<>>)

\* C9: the polygon get_bbox_single builds has the five vertices (xmin,ymin),
\* (xmax,ymin), (xmax,ymax), (xmin,ymax), (xmin,ymin), the extrema being the
\* least and greatest values of the x and y axes in whatever order the axes
\* run; the ring is closed and axis-aligned and every (x, y) pair of the
\* dataset lies inside or on it.
C9_FiveVertexRectangle ==
    Built =>
        /\ Len(pts_ls) = 5
        /\ IsLeast(pts_ls[1][1], input_xr.x) /\ IsLeast(pts_ls[1][2], input_xr.y)
        /\ IsGreatest(pts_ls[3][1], input_xr.x) /\ IsGreatest(pts_ls[3][2], input_xr.y)
        /\ pts_ls[2] = <<pts_ls[3][1], pts_ls[1][2]>>
        /\ pts_ls[4] = <<pts_ls[1][1], pts_ls[3][2]>>
        /\ pts_ls[5] = pts_ls[1]
        /\ \A i \in 1..4 : pts_ls[i][1] = pts_ls[i + 1][1] \/ pts_ls[i][2] = pts_ls[i + 1][2]
        /\ \A i \in 1..Len(input_xr.x), j \in 1..Len(input_xr.y) :
              PolygonCovers(pts_ls, <<input_xr.x[i], input_xr.y[j]>>)

\* a polygon built from a descending x axis and an unsorted y axis
C9_Witness ==
    /\ bpc = "returned"
    /\ input_xr.x = <<2, 0>>
    /\ input_xr.y = <<1, 2>>
    /\ pts_ls = << <<0, 1>>, <<2, 1>>, <<2, 2>>, <<0, 2>>, <<0, 1>> >>

Finished == bpc \in {"returned", "raised"}

\* C10 as stated: without mapping.spatial_epsg the call (on a dataset that has
\* coordinates) fails with a MissingProjection error, gives no result, draws
\* nothing and leaves the dataset unchanged.
C10_MissingProjection ==
    (Finished /\ input_xr.spatial_epsg = NoEpsg /\ Len(input_xr.x) > 0 /\ Len(input_xr.y) > 0) =>
        /\ bpc = "raised"
        /\ bbox_error = "MissingProjection"
        /\ bbox_result = None /\ polygon = None /\ figure = None
        /\ input_xr = xr_at_call

\* C10 amended: without mapping.spatial_epsg the call fails with Python's
\* AttributeError (with ValueError, raised earlier by min(), when a coordinate
\* axis is empty), gives no result, draws nothing and leaves the dataset
\* unchanged.
C10_AttributeError ==
    (Finished /\ input_xr.spatial_epsg = NoEpsg) =>
        /\ bpc = "raised"
        /\ bbox_error = (IF Len(input_xr.x) = 0 \/ Len(input_xr.y) = 0
                         THEN "ValueError" ELSE "AttributeError")
        /\ bbox_result = None /\ polygon = None /\ figure = None
        /\ input_xr = xr_at_call

C10_Witness ==
    /\ bpc = "raised"
    /\ input_xr.spatial_epsg = NoEpsg
    /\ bbox_error = "AttributeError"
    /\ pts_ls # <<>>
    /\ figure = None


(***************************************************************************)
(* C11: projecting the geographic rectangle that get_bbox_single computed  *)
(* back to the dataset's native projection gives a rectangle whose bounds  *)
(* are the four extrema of the axes.  The caller does this with the value  *)
(* of the call; for a dataset of zone 32645, whose axes are not empty, the *)
(* cell ends with the extrema recovered.                                   *)
(***************************************************************************)
RingBounds(ring) ==
    [xmin |-> ArrayMin([i \in 1..Len(ring) |-> ring[i][1]]),
     xmax |-> ArrayMax([i \in 1..Len(ring) |-> ring[i][1]]),
     ymin |-> ArrayMin([i \in 1..Len(ring) |-> ring[i][2]]),
     ymax |-> ArrayMax([i \in 1..Len(ring) |-> ring[i][2]])]

C11_RoundTrip ==
    (cpc \in {"done", "raised"} /\ input_xr.spatial_epsg = CallerEpsg)
        => /\ cpc = "done"
           /\ RingBounds(bbox_dc.geometry[1]) = extrema

(***************************************************************************)
(* C12: a lookup called again with the same catalog and the same argument, *)
(* the store not having changed since the first call began, returns the    *)
(* list the call before it returned: nothing is carried from one call to   *)
(* the next.                                                               *)
(***************************************************************************)
C12_SameAgain ==
    /\ (ppc = "returned" /\ Len(point_prev) = 1) => point_result = point_prev[1]
    /\ (zpc = "returned" /\ Len(zone_prev) = 1 /\ ~store_changed)
          => zone_result = zone_prev[1]

\* a zone lookup, repeated on an unchanged store, has returned two locators again
C12_Witness ==
    /\ zpc = "returned"
    /\ Len(zone_prev) = 1
    /\ ~store_changed
    /\ Len(zone_result) = 2

(***************************************************************************)
(* C13: a catalog holding a feature that lacks a required field (the       *)
(* footprint's coordinates, data_epsg or zarr_url) makes both lookups fail *)
(* with an error, whether or not that feature would have matched: neither  *)
(* lookup returns a list on such a catalog.                                *)
(***************************************************************************)
Malformed(catalog) == \E i \in 1..Len(catalog) : catalog[i].keys # AllKeys

C13_MalformedNeverReturns ==
    Malformed(itslive_catalog) => (ppc # "returned" /\ zpc # "returned")

(***************************************************************************)
(* C14: no helper changes what it was given.  In every step of             *)
(* find_granule_by_point, find_granules_by_zone, get_bbox_single,          *)
(* get_bbox_group and read_in_s3, up to their return or their failure, the *)
(* catalog, the point, the zone code, the locator, the dataset (its axes   *)
(* and its projection), the list of datasets and the bounds stay as they   *)
(* were.                                                                   *)
(***************************************************************************)
InputsKept ==
    /\ itslive_catalog' = itslive_catalog
    /\ ppc # "idle" => input_point' = input_point
    /\ zpc # "idle" => epsg_code' = epsg_code
    /\ tpc # "idle" => http_url' = http_url
    /\ bpc # "idle" => input_xr' = input_xr
    /\ gpc # "idle" => (input_ls' = input_ls /\ bounds' = bounds)

C14_InputsKept == [][InputsKept]_vars

\* get_bbox_group has returned after drawing the rectangles of two datasets
\* whose axes are not sorted
C14_Witness ==
    /\ gpc = "returned"
    /\ Len(poly_ls) = 2
    /\ \E i \in 1..2 : input_ls[i].x # SortedArray(input_ls[i].x)

(***************************************************************************)
(* C15: calls of find_granule_by_point, find_granules_by_zone and          *)
(* get_bbox_single that run at once over the same catalog, store and       *)
(* dataset, their steps interleaved in any order, each end as the call     *)
(* ends when it runs alone: the point lookup with the locators of the      *)
(* footprints holding the point, the zone lookup with the translated       *)
(* locators of the zone's features that the store holds, get_bbox_single   *)
(* with the rectangle of its dataset or with that dataset's error.         *)
(***************************************************************************)
RECURSIVE ZoneAlone(_, _, _, _)
ZoneAlone(cat, n, z, store) ==
    IF n = 0 THEN <<>>
    ELSE LET u == ZoneTranslate(cat[n].zarr_url)
         IN  IF cat[n].data_epsg = z /\ u \in store
             THEN Append(ZoneAlone(cat, n - 1, z, store), u)
             ELSE ZoneAlone(cat, n - 1, z, store)

BboxAloneError(ds) ==
    IF Len(ds.x) = 0 \/ Len(ds.y) = 0 THEN "ValueError"
    ELSE IF ds.spatial_epsg = NoEpsg THEN "AttributeError"
    ELSE None

BboxAloneRing(ds) ==
    LET corner(i) == << IF i \in {1, 4, 5} THEN ArrayMin(ds.x) ELSE ArrayMax(ds.x),
                        IF i \in {1, 2, 5} THEN ArrayMin(ds.y) ELSE ArrayMax(ds.y) >>
    IN  [i \in 1..5 |-> ToGeographic(ds.spatial_epsg, corner(i))]

ProbeFailed == \E k \in 1..Len(probes) : probes[k].answer = "error"

C16_FailedProbeSkipped ==
    ProbeFailed =>
        /\ zone_error = None
        /\ zpc \in {"loop", "lexists", "returned"}
        /\ \A k \in 1..Len(probes) :
              probes[k].answer = "error" =>
                  \A j \in 1..Len(url_ls) : url_ls[j] # probes[k].s3_url

(***************************************************************************)
(* C17 as stated: for a point whose longitude is outside [-180, 180] or    *)
(* whose latitude is outside [-90, 90], find_granule_by_point fails with   *)
(* an InvalidInput error and returns no list.                              *)
(***************************************************************************)
PointFinished == ppc \in {"returned", "raised"}

C17_InvalidInput ==
    (PointFinished /\ OutOfRange(input_point)) =>
        /\ ppc = "raised"
        /\ point_error = "InvalidInput"
        /\ point_result = NoList

\* C17 as amended: find_granule_by_point does not look at the range of the
\* point.  A point out of range is tested against every footprint like any
\* other: the call raises no InvalidInput error, and on a catalog whose
\* features all have coordinates, none of which reach beyond the valid range,
\* it returns the empty list.
FootprintsInRange(catalog) ==
    \A i \in 1..Len(catalog) :
        /\ Has(catalog[i], "coordinates")
        /\ \A k \in 1..Len(catalog[i].coordinates) : ~OutOfRange(catalog[i].coordinates[k])

C17_NoRangeCheck ==
    (PointFinished /\ OutOfRange(input_point)) =>
        /\ point_error # "InvalidInput"
        /\ FootprintsInRange(itslive_catalog) => (ppc = "returned" /\ point_result = <<>>)

\* the lookup has returned for a point of longitude 181 on a catalog of three
\* footprints
C17_Witness ==
    /\ ppc = "returned"
    /\ input_point = <<LonMax + 1, 1>>
    /\ Len(itslive_catalog) = 3
    /\ FootprintsInRange(itslive_catalog)
    /\ point_result = <<>>

(***************************************************************************)
(* C18 as stated: the list find_granule_by_point returns holds no locator  *)
(* twice, for every catalog and point, also when two features whose        *)
(* footprints contain the point carry the same zarr_url.                   *)
(***************************************************************************)
NoDuplicates(list) == \A j, k \in 1..Len(list) : list[j] = list[k] => j = k

C18_NoDuplicates == ppc = "returned" => NoDuplicates(point_result)

\* the features whose footprint has the point in its interior
Containing ==
    {i \in 1..Len(itslive_catalog) :
        /\ Has(itslive_catalog[i], "coordinates")
        /\ StrictlyInside(itslive_catalog[i].coordinates, input_point)}

\* C18 as amended: the list holds one entry for each feature whose footprint
\* contains the point, so a locator is in it as many times as there are such
\* features that carry it: never twice when their zarr_urls differ from one
\* another, twice when two of them carry the same zarr_url.
C18_OnePerFeature ==
    ppc = "returned" =>
        /\ Len(point_result) = Cardinality(Containing)
        /\ \A j \in 1..Len(point_result) :
              Cardinality({k \in 1..Len(point_result) : point_result[k] = point_result[j]})
                  = Cardinality({i \in Containing :
                                    itslive_catalog[i].zarr_url = point_result[j]})
        /\ (\A i, k \in Containing :
               itslive_catalog[i].zarr_url = itslive_catalog[k].zarr_url => i = k)
              => NoDuplicates(point_result)

\* two features with the same zarr_url contain the point, a third with
\* another zarr_url does too, and the list holds the first locator twice
C18_Witness ==
    /\ ppc = "returned"
    /\ Cardinality(Containing) = 3
    /\ Len(point_result) = 3
    /\ point_result[1] = point_result[3]
    /\ point_result[1] # point_result[2]

(***************************************************************************)
(* C19: find_granule_by_point returns the s3 urls of the datacubes whose   *)
(* footprint holds the point: every entry of the list is a locator in the  *)
(* store's own form, s3://bucket/key, the translation of the zarr_url of   *)
(* such a feature.                                                         *)
(***************************************************************************)
C19_ReturnsS3Urls ==
    ppc = "returned" =>
        \A j \in 1..Len(point_result) :
            /\ SubSeq(point_result[j], 1, 5) = "s3://"
            /\ \E i \in Containing :
                  point_result[j] = ReadInS3Gateway(ReadInS3Scheme(itslive_catalog[i].zarr_url))

(***************************************************************************)
(* C20: in one call of find_granules_by_zone the store is asked once about *)
(* each feature whose data_epsg equals the zone code and never about any   *)
(* other feature; the questions are asked one at a time in catalog order,  *)
(* the answer to one is in hand before the next is asked, and no feature   *)
(* is asked about twice.                                                   *)
(***************************************************************************)
InZoneBelow(n) ==
    {g \in 0..(n - 1) :
        /\ Has(itslive_catalog[g + 1], "data_epsg")
        /\ itslive_catalog[g + 1].data_epsg = epsg_code}

C20_OneProbeEach ==
    zpc # "idle" =>
        /\ \A k \in 1..(Len(probes) - 1) : probes[k].granule < probes[k + 1].granule
        /\ \A k \in 1..(Len(probes) - 1) : probes[k].answer \in {"exists", "missing"}
        /\ {probes[k].granule : k \in 1..Len(probes)}
              = InZoneBelow(zgranule)
                   \cup (IF zone_error = "ConnectionError" THEN {zgranule} ELSE {})
        /\ zpc = "returned" => zgranule = Len(itslive_catalog)

\* a call has returned after two probes, the first answered with no, about
\* the first and the third feature of a catalog whose second feature is of
\* another zone
C20_Witness ==
    /\ zpc = "returned"
    /\ Len(itslive_catalog) = 3
    /\ Len(probes) = 2
    /\ probes[1].granule = 0 /\ probes[1].answer = "missing"
    /\ probes[2].granule = 2
    /\ Has(itslive_catalog[2], "data_epsg")

(***************************************************************************)
(* The two lookups run to their end: C21                                   *)
(***************************************************************************)

\* one lookup of either kind over a catalog that may hold malformed features
InitLookups ==
    /\ itslive_catalog \in SeqsUpTo(Features, MaxShared)
    /\ remote \in {{}, GranuleObjects}
    /\ IdleTranslate
    /\ IdlePoint
    /\ IdleZone
    /\ IdleBbox
    /\ IdleCaller
    /\ IdleGroup
    /\ IdleOthers

NextLookups ==
    \/ zpc = "idle" /\ FindGranuleByPointCall
    \/ FindGranuleByPointBody
    \/ FindGranuleByPointReturn
    \/ ppc = "idle" /\ FindGranulesByZoneCall
    \/ FindGranulesByZoneBody
    \/ FindGranulesByZoneProbe
    \/ FindGranulesByZoneProbeRaises
    \/ FindGranulesByZoneReturn
    \/ RemoteChange

\* where the two lookups are: every step of a lookup changes it
position == <<ppc, granule, zpc, zgranule, probes>>

\* The interpreter runs the next statement of a call that has one: weak
\* fairness of each step of the two loops.  fs = s3fs.S3FileSystem(anon=True)
\* (line 314) builds the client with the timeouts of its class (connect 5 s,
\* read 15 s, 5 tries), so fs.lexists (line 324) ends each request with an
\* answer or, when the store never answers, with the error of the expired
\* timeout: weak fairness of "answers or raises".  Nothing is assumed of the
\* caller (a call may never be made) nor of the store's owner.
FairLookups ==
    /\ WF_position(FindGranuleByPointBody)
    /\ WF_position(FindGranuleByPointReturn)
    /\ WF_position(FindGranulesByZoneBody)
    /\ WF_position(FindGranulesByZoneProbe \/ FindGranulesByZoneProbeRaises)
    /\ WF_position(FindGranulesByZoneReturn)

SpecLookups == InitLookups /\ [][NextLookups]_vars /\ FairLookups

PointLookupEnded == ppc \in {"returned", "raised"}

ZoneLookupEnded == zpc \in {"returned", "raised"}

\* a step of a lookup never goes back in the catalog, and a step that stays in
\* the loop after handling a feature is at the next feature
SinglePass ==
    /\ granule' >= granule
    /\ zgranule' >= zgranule
    /\ granule' <= Len(itslive_catalog)
    /\ zgranule' <= Len(itslive_catalog)
    /\ (ppc = "loop" /\ ppc' = "loop" /\ granule' # granule) => granule' = granule + 1
    /\ (zpc = "lexists" /\ zpc' = "loop") => zgranule' = zgranule + 1
    /\ (zpc = "loop" /\ zpc' = "loop" /\ zgranule' # zgranule) => zgranule' = zgranule + 1
    /\ Len(probes') <= Len(itslive_catalog)

MaxRows == 2

\* the digits after the point in an identifier such as 'RGI60-15.04714'
SuffixLen == 5

DecimalDigits == <<"0", "1", "2", "3", "4", "5", "6", "7", "8", "9">>

IsDigit(c) == \E d \in 1..10 : DecimalDigits[d] = c

DigitValue(c) == (CHOOSE d \in 1..10 : DecimalDigits[d] = c) - 1

\* the digits the identifiers of the model are written with
SuffixDigits == {"0", "4"}

RECURSIVE DigitStrings(_)
DigitStrings(n) ==
    IF n = 0 THEN {""}
    ELSE {d \o s : d \in SuffixDigits, s \in DigitStrings(n - 1)}

\* identifiers of region 15 of version 6 of the inventory
RegionIds == {"RGI60-15." \o s : s \in DigitStrings(SuffixLen)}

\* an identifier written as version 7 of the inventory writes them
OtherIds == {"RGI2000-v7.0-G-15-04714"}

\* the form RGI60-15.NNNNN
OfRegionForm(id) ==
    /\ Len(id) = 9 + SuffixLen
    /\ SubSeq(id, 1, 9) = "RGI60-15."
    /\ \A i \in 10..(9 + SuffixLen) : IsDigit(SubSeq(id, i, i))

\* Series.str.slice(start,): Python's s[start:] on every value
StrSlice(s, start) == IF start >= Len(s) THEN "" ELSE Drop(s, start)

\* Series.replace(to_replace, value) with two strings: a value equal to
\* to_replace becomes value, every other value stays (unlike Series.str.replace,
\* it does not look inside the strings)
SeriesReplace(v, to_replace, value) == IF v = to_replace THEN value ELSE v

\* a slice that starts one character later
KeyTextLate(id) == SeriesReplace(StrSlice(id, 10), ".", "_")

\* line 237 for one row
KeyText(id) == SeriesReplace(StrSlice(id, 9), ".", "_")

\* int(s) for a string: the number its decimal digits write; a string with any
\* other character, or none, has no value (ValueError)
Parses(s) == Len(s) > 0 /\ \A i \in 1..Len(s) : IsDigit(SubSeq(s, i, i))

RECURSIVE PyInt(_)
PyInt(s) ==
    IF Len(s) = 0 THEN 0
    ELSE 10 * PyInt(SubSeq(s, 1, Len(s) - 1)) + DigitValue(SubSeq(s, Len(s), Len(s)))

InitGlacier ==
    /\ RGIId \in SeqsUpTo(RegionIds \cup OtherIds, MaxRows)
    /\ RGIId # <<>>
    /\ RGI_int = <<>>
    /\ rgi_error = None
    /\ rpc = "line237"
    /\ IdleHelpers
    /\ IdleDup
    /\ IdleCov
    /\ IdleFlow
    /\ IdleWorkflow

\* se_asia_prj['RGI_int'] = se_asia_prj['RGIId'].str.slice(9,).replace('.','_')
GlacierLine237 ==
    /\ rpc = "line237"
    /\ RGI_int' = [i \in 1..Len(RGIId) |-> KeyText(RGIId[i])]
    /\ rpc' = "line238"
    /\ UNCHANGED <<RGIId, rgi_error, notGlacier>>

\* se_asia_prj['RGI_int'] = se_asia_prj.RGI_int.apply(lambda x: int('15' + x)):
\* the column is assigned when the lambda returned for every row
GlacierLine238 ==
    /\ rpc = "line238"
    /\ IF \A i \in 1..Len(RGI_int) : Parses("15" \o RGI_int[i])
       THEN /\ RGI_int' = [i \in 1..Len(RGI_int) |-> PyInt("15" \o RGI_int[i])]
            /\ rpc' = "done"
            /\ UNCHANGED rgi_error
       ELSE /\ rgi_error' = "ValueError"
            /\ rpc' = "raised"
            /\ UNCHANGED RGI_int
    /\ UNCHANGED <<RGIId, notGlacier>>

NextGlacier ==
    \/ GlacierLine237
    \/ GlacierLine238

SpecGlacier == InitGlacier /\ [][NextGlacier]_vars

\* C22: once the cell has run, every row whose RGIId has the form
\* RGI60-15.NNNNN holds in RGI_int the integer 1500000 + NNNNN, and two rows
\* with different RGIId of that form hold different integers
C22_UniqueKey ==
    rpc = "done" =>
        \A i, j \in 1..Len(RGIId) :
            (OfRegionForm(RGIId[i]) /\ OfRegionForm(RGIId[j])) =>
                /\ RGI_int[i] \in 1500000..1599999
                /\ RGI_int[i] = 1500000 + PyInt(SubSeq(RGIId[i], 10, 14))
                /\ (RGIId[i] # RGIId[j]) => (RGI_int[i] # RGI_int[j])

\* the cell ran on two glaciers whose identifiers differ in the first digit
\* after the point only
C22_Witness ==
    /\ rpc = "done"
    /\ Len(RGIId) = 2
    /\ RGIId[1] = "RGI60-15.04044"
    /\ RGIId[2] = "RGI60-15.44044"
    /\ RGI_int = <<1504044, 1544044>>

(***************************************************************************)
(* The translation applied to its own output, and its two copies: C23, C24 *)
(***************************************************************************)

\* C23 as stated: read_in_s3, handed the locator the zone lookup made of a
\* published locator, leaves it as it is.
C23_Idempotent ==
    (published /\ s3_again # None) => s3_again = zone_s3_url

\* C24: the two statements of read_in_s3 and the chained statement of
\* find_granules_by_zone give the same string for every argument, published
\* or not, also where both change more than the scheme and the host
C24_CopiesAgree ==
    (Translated /\ zone_s3_url # None) => s3_url = zone_s3_url

\* both copies made s3://k/http of a locator whose key holds the gateway suffix
C24_Witness ==
    /\ http_url = "http://k.s3.amazonaws.com/ht.s3.amazonaws.comtp"
    /\ Translated
    /\ s3_url = "s3://k/http"
    /\ zone_s3_url = "s3://k/http"

(***************************************************************************)
(* find_dim_duplicates: C25                                                *)
(***************************************************************************)

\* if (element+1) <= 284
LastSuccessor == 284

\* the short inputs of the model have up to MaxShort time steps, the long ones
\* up to MaxBeyond more than LastSuccessor + 1
MaxShort == 3

MaxBeyond == 2

StepCounts == (0..MaxShort) \cup ((LastSuccessor - 1)..(LastSuccessor + 1 + MaxBeyond))

\* the indices at which the inputs of the model may repeat a mid_date
Marks == {0, 1, LastSuccessor - 1, LastSuccessor, LastSuccessor + 1}

\* n sorted time steps in which the steps at the indices of D, and only they,
\* have the mid_date of their successor
TimeSteps(n, D) == [i \in 1..n |-> i - Cardinality({d \in D : d < i - 1})]

\* input_xr.isel(mid_date=i).mid_date.data, for an index within the dimension
Isel(i) == mid_date[i + 1]

\* if (element+1) <= 284
HasSuccessor(e) == e + 1 <= LastSuccessor

InitDup ==
    /\ \E n \in StepCounts : \E D \in SUBSET {m \in Marks : m + 1 < n} :
          mid_date = TimeSteps(n, D)
    /\ element = 0
    /\ printed = <<>>
    /\ isel_max = -1
    /\ dup_error = None
    /\ dpc = "loop"
    /\ IdleHelpers
    /\ IdleGlacier
    /\ IdleCov
    /\ IdleFlow
    /\ IdleWorkflow

\* one pass of the loop body: isel(mid_date=element), isel(mid_date=element+1),
\* the comparison and the print; isel with an index that is not within the
\* dimension raises IndexError
FindDimDuplicatesBody ==
    /\ dpc = "loop"
    /\ element < Len(mid_date)
    /\ IF HasSuccessor(element)
       THEN /\ isel_max' = IF element + 1 > isel_max THEN element + 1 ELSE isel_max
            /\ IF element + 1 >= Len(mid_date)
               THEN /\ dup_error' = "IndexError"
                    /\ dpc' = "raised"
                    /\ UNCHANGED <<element, printed>>
               ELSE /\ printed' = IF Isel(element) = Isel(element + 1)
                                  THEN Append(printed, [index |-> element,
                                                        data |-> Isel(element)])
                                  ELSE printed
                    /\ element' = element + 1
                    /\ UNCHANGED <<dup_error, dpc>>
       ELSE /\ element' = element + 1
            /\ UNCHANGED <<printed, isel_max, dup_error, dpc>>
    /\ UNCHANGED <<mid_date, notDup>>

\* the range is used up: the function ends (it returns None)
FindDimDuplicatesReturn ==
    /\ dpc = "loop"
    /\ element = Len(mid_date)
    /\ dpc' = "returned"
    /\ UNCHANGED <<mid_date, element, printed, isel_max, dup_error, notDup>>

NextDup ==
    \/ FindDimDuplicatesBody
    \/ FindDimDuplicatesReturn

SpecDup == InitDup /\ [][NextDup]_vars

\* the indices whose successor has the same mid_date
Repeats == {i \in 0..(Len(mid_date) - 2) : mid_date[i + 1] = mid_date[i + 2]}

\* C25 as stated: for every number n of time steps the call reads no index
\* >= n, does not fail, and when it has ended it has printed the mid_date of
\* exactly the indices whose successor has an equal mid_date.
C25_PrintsEveryRepeat ==
    /\ isel_max < Len(mid_date) \/ isel_max = -1
    /\ dpc # "raised"
    /\ dpc = "returned" =>
          /\ {printed[k].index : k \in 1..Len(printed)} = Repeats
          /\ \A k \in 1..Len(printed) : printed[k].data = mid_date[printed[k].index + 1]

(***************************************************************************)
(* Coverage along mid_date: C26                                            *)
(*   valid_pixels = sample_glacier_raster.v.count(dim=['x','y']).compute() *)
(*   valid_pix_max = sample_glacier_raster.v.notnull().any('mid_date')     *)
(*                                                    .sum(['x','y'])      *)
(*   cov = valid_pixels/valid_pix_max                                      *)
(***************************************************************************)

\* time steps and pixels (the x, y grid, row after row) of the raster
MaxTimes == 2

MaxPixels == 3

Rasters ==
    UNION { [1..t -> [1..p -> BOOLEAN]] : t \in 1..MaxTimes, p \in 1..MaxPixels }

PixelsOf(r) == DOMAIN r[1]

\* .count(dim=['x','y']): the values of a time step that are not null
Count(r, t) == Cardinality({p \in PixelsOf(r) : r[t][p]})

\* a mask of the pixels that are not null at every time step
AlwaysValid(r) == {p \in PixelsOf(r) : \A t \in DOMAIN r : r[t][p]}

\* .notnull().any('mid_date'): the pixels that are not null at some time step
EverValid(r) == {p \in PixelsOf(r) : \E t \in DOMAIN r : r[t][p]}

\* a / b of two counts, kept exact; a zero denominator stands for the nan
\* that 0/0 gives
Divide(a, b) == [num |-> a, den |-> b]

InitCov ==
    /\ raster_v \in Rasters
    /\ valid_pixels = <<>>
    /\ valid_pix_max = 0
    /\ cov = <<>>
    /\ covpc = "line643"
    /\ IdleHelpers
    /\ IdleGlacier
    /\ IdleDup
    /\ IdleFlow
    /\ IdleWorkflow

\* valid_pixels = sample_glacier_raster.v.count(dim=['x','y']).compute()
CovLine643 ==
    /\ covpc = "line643"
    /\ valid_pixels' = [t \in DOMAIN raster_v |-> Count(raster_v, t)]
    /\ covpc' = "line644"
    /\ UNCHANGED <<raster_v, valid_pix_max, cov, notCov>>

\* valid_pix_max = sample_glacier_raster.v.notnull().any('mid_date').sum(['x','y'])
CovLine644 ==
    /\ covpc = "line644"
    /\ valid_pix_max' = Cardinality(EverValid(raster_v))
    /\ covpc' = "line646"
    /\ UNCHANGED <<raster_v, valid_pixels, cov, notCov>>

\* cov = valid_pixels/valid_pix_max
CovLine646 ==
    /\ covpc = "line646"
    /\ cov' = [t \in DOMAIN valid_pixels |-> Divide(valid_pixels[t], valid_pix_max)]
    /\ covpc' = "done"
    /\ UNCHANGED <<raster_v, valid_pixels, valid_pix_max, notCov>>

NextCov ==
    \/ CovLine643
    \/ CovLine644
    \/ CovLine646

SpecCov == InitCov /\ [][NextCov]_vars

\* C26: once the cell has run, at every time step valid_pixels is at most
\* valid_pix_max, and when valid_pix_max > 0 the coverage is a fraction between
\* 0 and 1 that is 1 exactly when every pixel that is not null at some time
\* step is not null at this one
C26_CoverageInUnitRange ==
    covpc = "done" =>
        \A t \in DOMAIN raster_v :
            /\ valid_pixels[t] <= valid_pix_max
            /\ valid_pix_max > 0 =>
                  /\ cov[t].den > 0
                  /\ 0 <= cov[t].num
                  /\ cov[t].num <= cov[t].den
                  /\ (cov[t].num = cov[t].den)
                        <=> (\A p \in PixelsOf(raster_v) :
                                (\E u \in DOMAIN raster_v : raster_v[u][p])
                                    => raster_v[t][p])

\* a raster of two time steps and three pixels: the first step has two of the
\* three pixels that are ever valid (coverage 2/3), the second all three
C26_Witness ==
    /\ covpc = "done"
    /\ Len(raster_v) = 2
    /\ valid_pix_max = 3
    /\ cov[1] = Divide(2, 3)
    /\ cov[2] = Divide(3, 3)

(***************************************************************************)
(* The cells that open the first result of the point lookup: C27          *)
(*   url = itslivetools.find_granule_by_point(itslive_catalog, [...])     *)
(*   dc = itslivetools.read_in_s3(url[0])                                  *)
(***************************************************************************)

\* an index that takes the last element of the list
LastOf(list) == list[Len(list)]

\* url[0]
FirstOf(list) == list[1]

InitFlow ==
    /\ itslive_catalog \in SeqsUpTo(Features, MaxShared)
    /\ remote \in {{}, GranuleObjects}
    /\ IdleTranslate
    /\ IdlePoint
    /\ IdleZone
    /\ IdleBbox
    /\ IdleCaller
    /\ IdleGroup
    /\ IdleGlacier
    /\ IdleDup
    /\ IdleCov
    /\ nb_url = NoList
    /\ flow_error = None
    /\ fpc = "line107"
    /\ IdleWorkflow

\* url = find_granule_by_point(...): the name is bound when the call returned
\* (a call that raised ends the cell, and the next cell is not run)
FlowLine107 ==
    /\ fpc = "line107"
    /\ ppc = "returned"
    /\ nb_url' = point_result
    /\ fpc' = "line117"
    /\ UNCHANGED <<flow_error, notFlow>>

\* read_in_s3(url[0]): the subscription is evaluated before the call; on an
\* empty list it raises IndexError and read_in_s3 is not entered
FlowLine117 ==
    /\ fpc = "line117"
    /\ IF Len(nb_url) = 0
       THEN /\ flow_error' = "IndexError"
            /\ fpc' = "raised"
            /\ UNCHANGED <<http_url, tpc>>
       ELSE /\ http_url' = FirstOf(nb_url)
            /\ tpc' = "line192"
            /\ fpc' = "read_in_s3"
            /\ UNCHANGED flow_error
    /\ UNCHANGED <<nb_url, bucket, key, published, s3_url, zone_s3_url, datacube, s3_again,
                   remote, itslive_catalog, pointVars, zoneVars, bboxVars, callerVars,
                   groupVars, glacierVars, dupVars, covVars, workflowVars>>

NextFlow ==
    \/ fpc = "line107" /\ FindGranuleByPointCall
    \/ FindGranuleByPointBody
    \/ FindGranuleByPointReturn
    \/ FlowLine107
    \/ FlowLine117
    \/ ReadInS3Line192
    \/ ReadInS3Line193
    \/ ReadInS3Open

SpecFlow == InitFlow /\ [][NextFlow]_vars

\* read_in_s3 was entered / xr.open_dataset was called
ReadInS3Entered == tpc # "idle"

OpenAttempted == tpc \in {"returned", "raised"}

\* the features whose footprint holds the point in its interior
HoldingFeatures ==
    {i \in 1..Len(itslive_catalog) :
        /\ Has(itslive_catalog[i], "coordinates")
        /\ StrictlyInside(itslive_catalog[i].coordinates, input_point)}

\* C27: read_in_s3 is entered, and a dataset opened, only after the point
\* lookup returned a list of at least one locator; when the list is empty (no
\* footprint contains the point) the second cell ends with IndexError at
\* url[0] and nothing is opened; otherwise the one locator handed to
\* read_in_s3 is the zarr_url of the first feature, in catalog order, whose
\* footprint contains the point
C27_OpensFirstResult ==
    /\ ReadInS3Entered =>
          /\ ppc = "returned"
          /\ Len(point_result) >= 1
          /\ HoldingFeatures # {}
          /\ \E i \in HoldingFeatures :
                /\ \A j \in HoldingFeatures : i <= j
                /\ http_url = itslive_catalog[i].zarr_url
    /\ (ppc = "returned" /\ HoldingFeatures = {} /\ fpc \notin {"line107", "line117"})
          => (flow_error = "IndexError" /\ fpc = "raised" /\ ~ReadInS3Entered)
    /\ fpc = "raised" => (~OpenAttempted /\ datacube = None)
    /\ datacube # None => datacube = "s3://its-live-data/" \o SubSeq(http_url, 39, Len(http_url))

\* the point (2, 2) lies in the footprints of two features; the datacube of
\* the first of them was opened
C27_Witness ==
    /\ Len(itslive_catalog) = 2
    /\ input_point = <<2, 2>>
    /\ point_result = <<UrlB, UrlA>>
    /\ tpc = "returned"
    /\ datacube = "s3://its-live-data/b.zarr"

(***************************************************************************)
(* The workflow .github/workflows/on-push.yml: C28, C29                    *)
(*                                                                         *)
(* A run is made by an event the `on:` block lets through.  Its one job    *)
(* runs five steps in order; a step without a status function in its `if:` *)
(* runs only while success() holds (no earlier step failed or was          *)
(* cancelled, the run is not cancelled), a step with `if: always()` runs   *)
(* in any case.  The concurrency block puts the runs of one ref in one     *)
(* group: a new run of the group cancels the pending run and the run in    *)
(* progress of the group, and waits until no run of the group is in        *)
(* progress.  A cancel request ends the step that is running (the runner   *)
(* kills its process).                                                     *)
(***************************************************************************)

MaxRuns == 2

Master == "refs/heads/master"

\* the events of the repository: pushes to two branches and of a tag, and a
\* pull request against master (its ref is the merge ref of the request)
Events ==
    { [name |-> "push", ref |-> Master, base |-> ""],
      [name |-> "push", ref |-> "refs/heads/dev", base |-> ""],
      [name |-> "push", ref |-> "refs/tags/v1", base |-> ""],
      [name |-> "pull_request", ref |-> "refs/pull/1/merge", base |-> "master"],
      [name |-> "pull_request", ref |-> "refs/pull/2/merge", base |-> "dev"] }

IsTag(ref) == Len(ref) >= 10 /\ SubSeq(ref, 1, 10) = "refs/tags/"

\* on: push: branches: [master], tags: ['*']; pull_request: branches: [master]
Triggers(ev) ==
    \/ ev.name = "push" /\ (ev.ref = Master \/ IsTag(ev.ref))
    \/ ev.name = "pull_request" /\ ev.base = "master"

\* the steps of the job jupyterbook
Steps ==
    << "Checkout", "Install Conda Environment", "Build Jupyter Book",
       "Dump Build Logs", "Publish to GitHub Pages" >>

PublishStep == 5

\* a workflow without a concurrency block: every run is a group of its own
NoGroup(id, ref) == <<"on-push", ref, id>>

\* group: ${{ github.workflow }}-${{ github.ref }}
ConcurrencyGroup(id, ref) == <<"on-push", ref, 0>>

\* a publish step without its `if:` line
PublishIfAnyRef(ref) == TRUE

\* if: github.ref == 'refs/heads/master'
PublishIf(ref) == ref = Master

\* success(): no earlier step failed or was cancelled, and the run is not
\* cancelled
Success(run) ==
    /\ ~run.cancel
    /\ \A k \in 1..Len(run.outcomes) : run.outcomes[k] \in {"success", "skipped"}

\* the `if:` of step k of a run, as the runner evaluates it
StepRuns(run, k) ==
    IF Steps[k] = "Dump Build Logs" THEN TRUE
    ELSE IF Steps[k] = "Publish to GitHub Pages" THEN Success(run) /\ PublishIf(run.ref)
    ELSE Success(run)

NoRun ==
    [name |-> "", ref |-> "", status |-> "none", step |-> 0, running |-> FALSE,
     killed |-> FALSE, cancel |-> FALSE, outcomes |-> <<>>]

Triggered == {r \in DOMAIN runs : runs[r].status # "none"}

SameGroup(r, q) ==
    ConcurrencyGroup(r, runs[r].ref) = ConcurrencyGroup(q, runs[q].ref)

\* the conclusion of a run whose last step has ended with outcomes o
Conclusion(run, o) ==
    IF run.cancel THEN "cancelled"
    ELSE IF \E k \in 1..Len(o) : o[k] = "failure" THEN "failure"
    ELSE "success"

\* the run after its step k has ended (or was skipped) with outcome oc
AfterStep(run, oc) ==
    LET o == Append(run.outcomes, oc)
    IN  IF run.step = Len(Steps)
        THEN [run EXCEPT !.outcomes = o, !.running = FALSE, !.killed = FALSE,
                         !.step = Len(Steps) + 1, !.status = Conclusion(run, o)]
        ELSE [run EXCEPT !.outcomes = o, !.running = FALSE, !.killed = FALSE,
                         !.step = run.step + 1]

InitWorkflow ==
    /\ runs = [r \in 1..MaxRuns |-> NoRun]
    /\ gh_pages = <<>>
    /\ IdleHelpers
    /\ IdleGlacier
    /\ IdleDup
    /\ IdleCov
    /\ IdleFlow

\* an event makes a run; cancel-in-progress: true
WorkflowTrigger ==
    \E ev \in Events :
        /\ Triggers(ev)
        /\ Cardinality(Triggered) < MaxRuns
        /\ LET r == Cardinality(Triggered) + 1
               InGroup(q) == ConcurrencyGroup(q, runs[q].ref) = ConcurrencyGroup(r, ev.ref)
           IN  runs' = [q \in DOMAIN runs |->
                    IF q = r
                    THEN [NoRun EXCEPT !.name = ev.name, !.ref = ev.ref,
                                       !.status = "pending"]
                    ELSE IF runs[q].status = "pending" /\ InGroup(q)
                    THEN [runs[q] EXCEPT !.status = "cancelled", !.cancel = TRUE]
                    ELSE IF runs[q].status = "in_progress" /\ InGroup(q)
                    THEN [runs[q] EXCEPT !.cancel = TRUE,
                                         !.killed = runs[q].running \/ runs[q].killed]
                    ELSE runs[q]]
        /\ UNCHANGED <<gh_pages, notWorkflow>>

\* a pending run starts when no run of its group is in progress
WorkflowStart ==
    \E r \in DOMAIN runs :
        /\ runs[r].status = "pending"
        /\ \A q \in DOMAIN runs \ {r} :
              SameGroup(r, q) => runs[q].status # "in_progress"
        /\ runs' = [runs EXCEPT ![r].status = "in_progress", ![r].step = 1]
        /\ UNCHANGED <<gh_pages, notWorkflow>>

\* the runner comes to the next step and evaluates its `if:`
WorkflowStepBegin ==
    \E r \in DOMAIN runs :
        /\ runs[r].status = "in_progress"
        /\ ~runs[r].running
        /\ runs' = [runs EXCEPT ![r] =
                        IF StepRuns(runs[r], runs[r].step)
                        THEN [runs[r] EXCEPT !.running = TRUE]
                        ELSE AfterStep(runs[r], "skipped")]
        /\ UNCHANGED <<gh_pages, notWorkflow>>

\* the step that is running ends: it succeeds or fails, or it was killed by
\* a cancel request; peaceiris/actions-gh-pages pushes to gh-pages when it
\* succeeds
WorkflowStepEnd ==
    \E r \in DOMAIN runs :
        /\ runs[r].status = "in_progress"
        /\ runs[r].running
        /\ \E oc \in IF runs[r].killed THEN {"cancelled"} ELSE {"success", "failure"} :
              /\ runs' = [runs EXCEPT ![r] = AfterStep(runs[r], oc)]
              /\ gh_pages' = IF runs[r].step = PublishStep /\ oc = "success"
                             THEN Append(gh_pages, r)
                             ELSE gh_pages
        /\ UNCHANGED notWorkflow

NextWorkflow ==
    \/ WorkflowTrigger
    \/ WorkflowStart
    \/ WorkflowStepBegin
    \/ WorkflowStepEnd

SpecWorkflow == InitWorkflow /\ [][NextWorkflow]_vars

\* the publish step of run r is running or has run
PublishRan(r) ==
    \/ runs[r].step = PublishStep /\ runs[r].running
    \/ Len(runs[r].outcomes) >= PublishStep /\ runs[r].outcomes[PublishStep] # "skipped"

Published(r) == \E k \in 1..Len(gh_pages) : gh_pages[k] = r

\* C28: the publish step of a run runs, and the run pushes to gh-pages, only
\* when the ref of the run is refs/heads/master and the steps Checkout,
\* Install Conda Environment and Build Jupyter Book of that run have
\* succeeded; a run made by a pull request or by the push of a tag never runs
\* the publish step
C28_PublishOnlyMasterAfterBuild ==
    \A r \in DOMAIN runs :
        /\ (PublishRan(r) \/ Published(r)) =>
              /\ runs[r].ref = Master
              /\ runs[r].name = "push"
              /\ \A k \in 1..3 : runs[r].outcomes[k] = "success"
        /\ (runs[r].name = "pull_request" \/ IsTag(runs[r].ref)) =>
              (~PublishRan(r) /\ ~Published(r))

\* a run of master has published, and a run of a pull request has ended in
\* success with its publish step skipped
C28_Witness ==
    \E r, q \in DOMAIN runs :
        /\ runs[r].ref = Master /\ Published(r) /\ runs[r].status = "success"
        /\ runs[q].name = "pull_request" /\ runs[q].status = "success"
        /\ runs[q].outcomes[PublishStep] = "skipped"

\* at most one run of a ref is in progress, a run made after another of the
\* same ref leaves it neither pending nor in progress without a cancel
\* request, and waits (or is cancelled by a third) while it is in progress;
\* no two runs of a ref are in the publish step at once
OnePerGroup ==
    \A r, q \in Triggered :
        (r < q /\ runs[r].ref = runs[q].ref) =>
            /\ ~(runs[r].status = "in_progress" /\ runs[q].status = "in_progress")
            /\ runs[r].status # "pending"
            /\ runs[r].status = "in_progress" =>
                  (runs[r].cancel /\ runs[q].status \in {"pending", "cancelled"})
            /\ ~(runs[r].step = PublishStep /\ runs[r].running
                    /\ runs[q].step = PublishStep /\ runs[q].running)

\* a run with a cancel request does not begin its publish step and does not
\* push, and a request is never taken back
CancelledStays ==
    \A r \in DOMAIN runs :
        runs[r].cancel =>
            /\ runs'[r].cancel
            /\ runs'[r].status \in {"in_progress", "cancelled"}
            /\ (runs'[r].step = PublishStep /\ runs'[r].running)
                  => (runs[r].step = PublishStep /\ runs[r].running)
            /\ ~(Len(gh_pages') > Len(gh_pages) /\ gh_pages'[Len(gh_pages')] = r)

\* C29: in every step of the workflow's runs, at most one run of a ref is in
\* progress and a newer run of the ref has cancelled the older one, so no two
\* runs of a ref publish at once; and a run that was cancelled neither begins
\* its publish step nor pushes to gh-pages afterwards
C29_OneRunPerRef == [][OnePerGroup' /\ CancelledStays]_vars

\* a second push to master cancelled the run of the first while its build
\* step was running: the first run ended cancelled without publishing, the
\* second has published
C29_Witness ==
    /\ runs[1].ref = Master
    /\ runs[2].ref = Master
    /\ runs[1].status = "cancelled"
    /\ runs[1].outcomes = <<"success", "success", "cancelled", "success", "skipped">>
    /\ runs[2].status = "success"
    /\ gh_pages = <<2>>

=============================================================================
